---- MODULE Spec2Model ----
(***************************************************************************)
(* Model of the fault package: the test_case decorator (annotation         *)
(* resolution, variant synthesis, body rewriting, recompilation), the      *)
(* execution of a synthesized test against its FaultSimulator adapters,    *)
(* and the subprocess_run utility.                                         *)
(*                                                                         *)
(* Python syntax trees are records tagged by k ("Name", "Attribute", ...). *)
(* Source text is a sequence of tokens, so that the text the code formats  *)
(* (f-strings, str(), astor.to_source) and parses back (ast.parse) is a    *)
(* real round trip through a parser that can fail.                         *)
(***************************************************************************)
EXTENDS Integers, Sequences, FiniteSets, TLC

VARIABLES
    src,            \* the test modules's definitions not yet decorated, in order
    num_tests,      \* the num_tests argument of test_case
    defn_globals,   \* the defining frame's namespace (module level: locals is globals)
    sims,           \* heap of FaultSimulator objects, by reference
    done,           \* one record per call of test_wrapper, in order
    run,            \* the last invocation of a synthesized test by the runner
    FaultConfig_env,\* FaultConfig.env, the shared default environment
    proc            \* the last call of subprocess_run

vars == <<src, num_tests, defn_globals, sims, done, run, FaultConfig_env, proc>>

----------------------------------------------------------------------------
(* Bounds of the model. *)

MaxWidth == 2
MaxNumTests == 2
MaxBody == 2
MaxDefs == 2
MaxLines == 2

----------------------------------------------------------------------------
(* Syntax trees (module ast). *)

Name(id) == [k |-> "Name", id |-> id]
Num(n) == [k |-> "Num", n |-> n]
Str(s) == [k |-> "Str", s |-> s]
Attribute(value, attr) == [k |-> "Attribute", value |-> value, attr |-> attr]
Call(func, args) == [k |-> "Call", func |-> func, args |-> args]
Compare(left, right) == [k |-> "Compare", left |-> left, right |-> right]
List(elts) == [k |-> "List", elts |-> elts]
Tuple(elts) == [k |-> "Tuple", elts |-> elts]
NoAnnotation == [k |-> "NoAnnotation"]

Assign(targets, value) == [k |-> "Assign", targets |-> targets, value |-> value]
Expr(value) == [k |-> "Expr", value |-> value]
AssertStmt(test) == [k |-> "Assert", test |-> test]

Arg(arg, annotation) == [arg |-> arg, annotation |-> annotation]
FunctionDef(name, params, body, decorator_list) ==
    [k |-> "FunctionDef", name |-> name, params |-> params, body |-> body,
     decorator_list |-> decorator_list]

(* An exception in place of a tree or a value. *)
Raise(exc) == [k |-> "Raise", exc |-> exc]
IsRaise(x) == x.k = "Raise"

----------------------------------------------------------------------------
(* Source text: sequences of tokens. *)

TkName(s) == [t |-> "NAME", s |-> s]
TkNumber(n) == [t |-> "NUMBER", num |-> n]
TkString(s) == [t |-> "STRING", s |-> s]
TkOp(s) == [t |-> "OP", s |-> s]

RECURSIVE Join(_, _)
(* sep.join(texts) on token sequences *)
Join(texts, sep) ==
    IF texts = <<>> THEN <<>>
    ELSE IF Len(texts) = 1 THEN texts[1]
    ELSE texts[1] \o sep \o Join(Tail(texts), sep)

RECURSIVE to_source(_)
(* astor.to_source on an expression *)
to_source(e) ==
    CASE e.k = "Name" -> <<TkName(e.id)>>
      [] e.k = "Num" -> <<TkNumber(e.n)>>
      [] e.k = "Str" -> <<TkString(e.s)>>
      [] e.k = "Attribute" -> to_source(e.value) \o <<TkOp("."), TkName(e.attr)>>
      [] e.k = "Call" ->
            to_source(e.func) \o <<TkOp("(")>>
            \o Join([i \in 1..Len(e.args) |-> to_source(e.args[i])], <<TkOp(",")>>)
            \o <<TkOp(")")>>
      [] e.k = "Compare" -> to_source(e.left) \o <<TkOp("==")>> \o to_source(e.right)
      [] e.k = "List" ->
            <<TkOp("[")>>
            \o Join([i \in 1..Len(e.elts) |-> to_source(e.elts[i])], <<TkOp(",")>>)
            \o <<TkOp("]")>>

(* The parser's result: a node and the tokens left, or a SyntaxError. *)
Parsed(node, rest) == [ok |-> TRUE, node |-> node, rest |-> rest]
SyntaxError == [ok |-> FALSE, node |-> Raise("SyntaxError"), rest |-> <<>>]

IsOp(ts, s) == ts # <<>> /\ ts[1].t = "OP" /\ ts[1].s = s

RECURSIVE ParseExpr(_)
RECURSIVE ParseTrailers(_, _)
RECURSIVE ParseElts(_, _, _)

(* '[' elts ']' read as r *)
ListOf(r) == IF r.ok THEN Parsed(List(r.node.elts), r.rest) ELSE SyntaxError

(* atom: NAME | NUMBER | STRING | '[' elts ']' *)
ParseAtom(ts) ==
    IF ts = <<>> THEN SyntaxError
    ELSE IF ts[1].t = "NAME" THEN Parsed(Name(ts[1].s), Tail(ts))
    ELSE IF ts[1].t = "NUMBER" THEN Parsed(Num(ts[1].num), Tail(ts))
    ELSE IF ts[1].t = "STRING" THEN Parsed(Str(ts[1].s), Tail(ts))
    ELSE IF IsOp(ts, "[") THEN ListOf(ParseElts(Tail(ts), "]", <<>>))
    ELSE SyntaxError

(* after one element r: ',' and more elements, or the closing token *)
MoreElts(r, close, acc) ==
    IF ~r.ok THEN SyntaxError
    ELSE IF IsOp(r.rest, ",") THEN ParseElts(Tail(r.rest), close, Append(acc, r.node))
    ELSE IF IsOp(r.rest, close) THEN Parsed(Tuple(Append(acc, r.node)), Tail(r.rest))
    ELSE SyntaxError

(* elts: [expr (',' expr)*] close; the node returned is a Tuple of the elements *)
ParseElts(ts, close, acc) ==
    IF IsOp(ts, close) THEN Parsed(Tuple(acc), Tail(ts))
    ELSE MoreElts(ParseExpr(ts), close, acc)

(* node '(' elts ')' with the elements read as r *)
CallOf(node, r) ==
    IF r.ok THEN ParseTrailers(Call(node, r.node.elts), r.rest) ELSE SyntaxError

(* trailer: '.' NAME | '(' elts ')' *)
ParseTrailers(node, ts) ==
    IF IsOp(ts, ".") THEN
        IF Len(ts) >= 2 /\ ts[2].t = "NAME"
        THEN ParseTrailers(Attribute(node, ts[2].s), SubSeq(ts, 3, Len(ts)))
        ELSE SyntaxError
    ELSE IF IsOp(ts, "(") THEN CallOf(node, ParseElts(Tail(ts), ")", <<>>))
    ELSE Parsed(node, ts)

TrailersOf(a) == IF a.ok THEN ParseTrailers(a.node, a.rest) ELSE SyntaxError

ParsePrimary(ts) == TrailersOf(ParseAtom(ts))

CompareOf(l, r) == IF r.ok THEN Parsed(Compare(l.node, r.node), r.rest) ELSE SyntaxError

RightOf(l) ==
    IF ~l.ok THEN SyntaxError
    ELSE IF IsOp(l.rest, "==") THEN CompareOf(l, ParsePrimary(Tail(l.rest)))
    ELSE l

(* expr: primary ['==' primary] *)
ParseExpr(ts) == RightOf(ParsePrimary(ts))

StatementOf(r) == IF r.ok /\ r.rest = <<>> THEN Expr(r.node) ELSE Raise("SyntaxError")

(* ast.parse(text).body[0] for a text that is one expression statement *)
ast_parse(text) == StatementOf(ParseExpr(text))

----------------------------------------------------------------------------
(* The Body Rewriter: class CoreIRSimulatorRewrite(ast.NodeTransformer).  *)
(* sim_object is the text of the adapter's binding name.                   *)

(* f"{sim_object}.set_value('{target}', {value}, Scope())" *)
SetValueText(sim_object, target, value) ==
    sim_object \o <<TkOp("."), TkName("set_value"), TkOp("("), TkString(target), TkOp(",")>>
    \o value \o <<TkOp(","), TkName("Scope"), TkOp("("), TkOp(")"), TkOp(")")>>

(* f"{sim_object}.get_value('{attr}', Scope())" *)
GetValueText(sim_object, attr) ==
    sim_object \o <<TkOp("."), TkName("get_value"), TkOp("("), TkString(attr), TkOp(","),
                    TkName("Scope"), TkOp("("), TkOp(")"), TkOp(")")>>

(* visit_Assign: the first target's attr names the port; node.value is     *)
(* formatted as it stands (it is not visited).                             *)
visit_Assign(sim_object, node) ==
    IF node.targets[1].k # "Attribute" THEN Raise("AttributeError")
    ELSE ast_parse(SetValueText(sim_object, node.targets[1].attr, to_source(node.value)))

(* ast.parse(...).body[0].value *)
ValueOf(stmt) == IF IsRaise(stmt) THEN stmt ELSE stmt.value

(* visit_Attribute: "eval" is renamed in place; any other attribute read   *)
(* is replaced by a get_value call. The node's children are not visited.   *)
visit_Attribute(sim_object, node) ==
    IF node.attr = "eval" THEN [node EXCEPT !.attr = "evaluate"]
    ELSE ValueOf(ast_parse(GetValueText(sim_object, node.attr)))

(* The first exception among visited children, if any. *)
FirstRaise(nodes) ==
    LET bad == {i \in 1..Len(nodes) : IsRaise(nodes[i])}
    IN  IF bad = {} THEN <<>> ELSE <<nodes[CHOOSE i \in bad : \A j \in bad : i <= j]>>

(* A node with its children replaced by their visits, or the exception   *)
(* one of them raised.                                                     *)
Rebuilt(node, children, rebuilt) ==
    IF FirstRaise(children) # <<>> THEN FirstRaise(children)[1] ELSE rebuilt

RECURSIVE visit(_, _)
(* NodeTransformer.visit: visit_<class> where the class defines it, else   *)
(* generic_visit, which visits the node's child nodes in field order.      *)
visit(sim_object, node) ==
    CASE node.k = "Assign" -> visit_Assign(sim_object, node)
      [] node.k = "Attribute" -> visit_Attribute(sim_object, node)
      [] node.k = "Expr" ->
            Rebuilt(node, <<visit(sim_object, node.value)>>,
                    [node EXCEPT !.value = visit(sim_object, node.value)])
      [] node.k = "Assert" ->
            Rebuilt(node, <<visit(sim_object, node.test)>>,
                    [node EXCEPT !.test = visit(sim_object, node.test)])
      [] node.k = "Call" ->
            Rebuilt(node,
                    <<visit(sim_object, node.func)>>
                    \o [i \in 1..Len(node.args) |-> visit(sim_object, node.args[i])],
                    [node EXCEPT !.func = visit(sim_object, node.func),
                                 !.args = [i \in 1..Len(node.args) |->
                                              visit(sim_object, node.args[i])]])
      [] node.k = "Compare" ->
            Rebuilt(node, <<visit(sim_object, node.left), visit(sim_object, node.right)>>,
                    [node EXCEPT !.left = visit(sim_object, node.left),
                                 !.right = visit(sim_object, node.right)])
      [] node.k \in {"List", "Tuple"} ->
            Rebuilt(node, [i \in 1..Len(node.elts) |-> visit(sim_object, node.elts[i])],
                    [node EXCEPT !.elts = [i \in 1..Len(node.elts) |->
                                              visit(sim_object, node.elts[i])]])
      [] OTHER -> node

(* visit_FunctionDef: only the body's statements are visited. *)
visit_FunctionDef(sim_object, node) ==
    Rebuilt(node, [i \in 1..Len(node.body) |-> visit(sim_object, node.body[i])],
            [node EXCEPT !.body = [i \in 1..Len(node.body) |->
                                      visit(sim_object, node.body[i])]])

----------------------------------------------------------------------------
(* Python values. *)

VNone == [k |-> "None"]
VInt(n) == [k |-> "int", n |-> n]
VBool(b) == [k |-> "bool", b |-> b]
VStr(s) == [k |-> "str", s |-> s]
VList(elts) == [k |-> "list", elts |-> elts]
VBitVector(n, width) == [k |-> "BitVector", n |-> n, width |-> width]
VRandom(width) == [k |-> "Random", width |-> width]
VCircuit(name) == [k |-> "Circuit", name |-> name]
VPort(name, attr) == [k |-> "Port", name |-> name, attr |-> attr]
VSim(ref) == [k |-> "FaultSimulator", ref |-> ref]
VBackend(ref) == [k |-> "CoreIRSimulator", ref |-> ref]
VMethod(ref, attr) == [k |-> "method", ref |-> ref, attr |-> attr]
VClass(cls) == [k |-> "class", cls |-> cls]
VModule(mod) == [k |-> "module", mod |-> mod]
VScope == [k |-> "Scope"]
VMark(argname, argvalues) ==
    [k |-> "MarkDecorator", argname |-> argname, argvalues |-> argvalues]
VFunction(name, params, body, marks) ==
    [k |-> "function", name |-> name, params |-> params, body |-> body, marks |-> marks]

(* The circuit definitions of the test module and their ports. *)
CircuitPorts(name) ==
    CASE name = "Foo" -> {"a", "b", "c"}
      [] name = "Bar" -> {"a", "d"}
      [] OTHER -> {}

(* str(value), as text. A circuit prints as its name; a BitVector prints   *)
(* as the constructor call that rebuilds it; a plain object prints as      *)
(* <... object at ADDRESS>.                                                *)
PyStr(v) ==
    CASE v.k = "Circuit" -> <<TkName(v.name)>>
      [] v.k = "str" -> <<TkName(v.s)>>
      [] v.k = "int" -> <<TkNumber(v.n)>>
      [] v.k = "BitVector" ->
            <<TkName("BitVector"), TkOp("("), TkNumber(v.n), TkOp(","),
              TkNumber(v.width), TkOp(")")>>
      [] v.k = "class" -> <<TkOp("<"), TkName("class"), TkString(v.cls), TkOp(">")>>
      [] v.k = "FaultSimulator" ->
            <<TkOp("<"), TkName("fault"), TkOp("."), TkName("FaultSimulator"),
              TkName("object"), TkName("at"), TkNumber(v.ref), TkOp(">")>>
      [] OTHER -> <<TkOp("<"), TkName(v.k), TkName("object"), TkOp(">")>>

(* str(list): the elements' texts between brackets *)
PyStrList(vs) ==
    <<TkOp("[")>> \o Join([i \in 1..Len(vs) |-> PyStr(vs[i])], <<TkOp(",")>>)
    \o <<TkOp("]")>>

Spelling(tok) ==
    CASE tok.t = "NUMBER" -> ToString(tok.num)
      [] tok.t = "STRING" -> "'" \o tok.s \o "'"
      [] OTHER -> tok.s

RECURSIVE Spell(_)
(* A text as one string (a dictionary key) *)
Spell(text) ==
    IF text = <<>> THEN ""
    ELSE IF Len(text) = 1 THEN Spelling(text[1])
    ELSE Spelling(text[1]) \o " " \o Spell(Tail(text))

(* d[key] = value *)
SetItem(d, key, value) == [x \in DOMAIN d \cup {key} |-> IF x = key THEN value ELSE d[x]]

----------------------------------------------------------------------------
(* class FaultSimulator and the simulation backend behind it. An object    *)
(* is [circuit, store]: store is the backend's value of each port set.     *)

(* FaultSimulator.__init__: the backend is constructed on the circuit. *)
NewSim(circuit) == [circuit |-> circuit, store |-> <<>>]

(* getattr(self.circuit, port) *)
HasPort(sim, port) ==
    /\ sim.circuit.k = "Circuit"
    /\ port.k = "str"
    /\ port.s \in CircuitPorts(sim.circuit.name)

CallRecord(ref, op, port, val) == [ref |-> ref, op |-> op, port |-> port, val |-> val]

(* The state an evaluation threads: the value (or exception), the adapter  *)
(* calls made so far, and the heap.                                        *)
Res(v, calls, heap) == [v |-> v, calls |-> calls, heap |-> heap]

StoreGet(store, port) ==
    LET hit == {i \in 1..Len(store) : store[i].port = port}
    IN  IF hit = {} THEN VInt(0) ELSE store[CHOOSE i \in hit : TRUE].val

StorePut(store, port, val) ==
    LET hit == {i \in 1..Len(store) : store[i].port = port}
    IN  IF hit = {} THEN Append(store, [port |-> port, val |-> val])
        ELSE [store EXCEPT ![CHOOSE i \in hit : TRUE].val = val]

(* FaultSimulator.evaluate *)
evaluate(ref, args, calls, heap) ==
    IF Len(args) # 0 THEN Res(Raise("TypeError"), calls, heap)
    ELSE Res(VNone, Append(calls, CallRecord(ref, "evaluate", "", VNone)), heap)

(* FaultSimulator.set_value(port, value, scope) *)
set_value(ref, args, calls, heap) ==
    IF Len(args) # 3 THEN Res(Raise("TypeError"), calls, heap)
    ELSE IF ~HasPort(heap[ref], args[1]) THEN Res(Raise("AttributeError"), calls, heap)
    ELSE Res(VNone,
             Append(calls, CallRecord(ref, "set_value", args[1].s, args[2])),
             [heap EXCEPT ![ref].store = StorePut(@, args[1].s, args[2])])

(* FaultSimulator.get_value(port, scope) *)
get_value(ref, args, calls, heap) ==
    IF Len(args) # 2 THEN Res(Raise("TypeError"), calls, heap)
    ELSE IF ~HasPort(heap[ref], args[1]) THEN Res(Raise("AttributeError"), calls, heap)
    ELSE LET val == StoreGet(heap[ref].store, args[1].s)
         IN  Res(val, Append(calls, CallRecord(ref, "get_value", args[1].s, val)), heap)

----------------------------------------------------------------------------
(* Evaluation of expressions and statements (eval, exec, a test's run). *)

Builtins == {"int"}

(* A name: the locals, then the globals, then the builtins. *)
LookupName(id, locals, globals) ==
    IF id \in DOMAIN locals THEN locals[id]
    ELSE IF id \in DOMAIN globals THEN globals[id]
    ELSE IF id \in Builtins THEN VClass(id)
    ELSE Raise("NameError")

(* getattr(v, attr) *)
GetAttr(v, attr, heap) ==
    CASE v.k = "FaultSimulator" ->
            IF attr \in {"evaluate", "set_value", "get_value"} THEN VMethod(v.ref, attr)
            ELSE IF attr = "circuit" THEN heap[v.ref].circuit
            ELSE IF attr = "coreir_sim" THEN VBackend(v.ref)
            ELSE Raise("AttributeError")
      [] v.k = "Circuit" ->
            IF attr \in CircuitPorts(v.name) THEN VPort(v.name, attr)
            ELSE Raise("AttributeError")
      [] v.k = "module" ->
            IF v.mod = "pytest" /\ attr = "mark" THEN VModule("pytest.mark")
            ELSE IF v.mod = "pytest.mark" /\ attr = "parametrize"
                 THEN VMethod(0, "parametrize")
            ELSE Raise("AttributeError")
      [] OTHER -> Raise("AttributeError")

(* f(args): a call of the value f *)
Apply(f, args, calls, heap) ==
    CASE f.k = "method" /\ f.attr = "evaluate" -> evaluate(f.ref, args, calls, heap)
      [] f.k = "method" /\ f.attr = "set_value" -> set_value(f.ref, args, calls, heap)
      [] f.k = "method" /\ f.attr = "get_value" -> get_value(f.ref, args, calls, heap)
      [] f.k = "method" /\ f.attr = "parametrize" ->
            IF Len(args) = 2 /\ args[1].k = "str" /\ args[2].k = "list"
            THEN Res(VMark(args[1].s, args[2].elts), calls, heap)
            ELSE Res(Raise("TypeError"), calls, heap)
      [] f.k = "class" /\ f.cls = "Scope" ->
            IF Len(args) = 0 THEN Res(VScope, calls, heap)
            ELSE Res(Raise("TypeError"), calls, heap)
      [] f.k = "class" /\ f.cls = "BitVector" ->
            IF Len(args) = 2 /\ args[1].k = "int" /\ args[2].k = "int"
            THEN Res(VBitVector(args[1].n, args[2].n), calls, heap)
            ELSE Res(Raise("TypeError"), calls, heap)
      [] f.k = "class" /\ f.cls = "Random" ->
            IF Len(args) = 1 /\ args[1].k = "int"
            THEN Res(VRandom(args[1].n), calls, heap)
            ELSE Res(Raise("TypeError"), calls, heap)
      [] OTHER -> Res(Raise("TypeError"), calls, heap)

(* bool(v) *)
Truthy(v) ==
    CASE v.k = "bool" -> v.b
      [] v.k \in {"int", "BitVector"} -> v.n # 0
      [] v.k = "None" -> FALSE
      [] OTHER -> TRUE

RECURSIVE Eval(_, _, _, _, _)
RECURSIVE EvalAll(_, _, _, _, _, _)

(* after the first expression's result r, the rest *)
EvalRest(r, es, acc, locals, globals) ==
    IF IsRaise(r.v) THEN r
    ELSE EvalAll(es, Append(acc, r.v), locals, globals, r.calls, r.heap)

(* The expressions es, left to right; the value is the list of values. *)
EvalAll(es, acc, locals, globals, calls, heap) ==
    IF es = <<>> THEN Res(VList(acc), calls, heap)
    ELSE EvalRest(Eval(es[1], locals, globals, calls, heap), Tail(es), acc, locals, globals)

(* r.attr, r the object's result *)
AttrOf(r, attr) ==
    IF IsRaise(r.v) THEN r ELSE Res(GetAttr(r.v, attr, r.heap), r.calls, r.heap)

(* f(a), a the arguments' result *)
ApplyTo(f, a) == IF IsRaise(a.v) THEN a ELSE Apply(f, a.v.elts, a.calls, a.heap)

(* f(args), f the callee's result *)
CallWith(f, args, locals, globals) ==
    IF IsRaise(f.v) THEN f
    ELSE ApplyTo(f.v, EvalAll(args, <<>>, locals, globals, f.calls, f.heap))

(* l == r, r the right operand's result *)
EqualTo(l, r) == IF IsRaise(r.v) THEN r ELSE Res(VBool(l = r.v), r.calls, r.heap)

(* l == right, l the left operand's result *)
CompareWith(l, right, locals, globals) ==
    IF IsRaise(l.v) THEN l
    ELSE EqualTo(l.v, Eval(right, locals, globals, l.calls, l.heap))

Eval(e, locals, globals, calls, heap) ==
    CASE e.k = "Name" -> Res(LookupName(e.id, locals, globals), calls, heap)
      [] e.k = "Num" -> Res(VInt(e.n), calls, heap)
      [] e.k = "Str" -> Res(VStr(e.s), calls, heap)
      [] e.k = "List" -> EvalAll(e.elts, <<>>, locals, globals, calls, heap)
      [] e.k = "Attribute" -> AttrOf(Eval(e.value, locals, globals, calls, heap), e.attr)
      [] e.k = "Call" ->
            CallWith(Eval(e.func, locals, globals, calls, heap), e.args, locals, globals)
      [] e.k = "Compare" ->
            CompareWith(Eval(e.left, locals, globals, calls, heap), e.right, locals, globals)
      [] OTHER -> Res(Raise("TypeError"), calls, heap)

(* an expression statement: the value is dropped *)
Dropped(r) == IF IsRaise(r.v) THEN r ELSE Res(VNone, r.calls, r.heap)

(* assert test *)
Asserted(r) ==
    IF IsRaise(r.v) THEN r
    ELSE IF Truthy(r.v) THEN Res(VNone, r.calls, r.heap)
    ELSE Res(Raise("AssertionError"), r.calls, r.heap)

(* One statement of a synthesized body. *)
ExecStmt(stmt, locals, globals, calls, heap) ==
    CASE stmt.k = "Expr" -> Dropped(Eval(stmt.value, locals, globals, calls, heap))
      [] stmt.k = "Assert" -> Asserted(Eval(stmt.test, locals, globals, calls, heap))

----------------------------------------------------------------------------
(* collect_types: each parameter's annotation, evaluated in the defining   *)
(* frame. The table is a dictionary in insertion order: a sequence of      *)
(* [key, value].                                                           *)

RECURSIVE CollectArgs(_, _, _, _)

(* type_table[arg.arg] = the annotation's value r *)
Collected(r, params, table, globals, heap) ==
    IF IsRaise(r.v) THEN [exc |-> r.v.exc, type_table |-> table]
    ELSE CollectArgs(Tail(params), Append(table, [key |-> params[1].arg, value |-> r.v]),
                     globals, heap)

CollectArgs(params, table, globals, heap) ==
    IF params = <<>> THEN [exc |-> "", type_table |-> table]
    ELSE IF params[1].annotation.k = "NoAnnotation"
         THEN [exc |-> "TypeError", type_table |-> table]
    ELSE Collected(Eval(params[1].annotation, <<>>, globals, <<>>, heap),
                   params, table, globals, heap)

collect_types(tree, globals, heap) == CollectArgs(tree.params, <<>>, globals, heap)

----------------------------------------------------------------------------
(* test_case(...)(fn): the variant synthesizer's loop over the type table. *)

RECURSIVE Pow2(_)
(* 1 << width *)
Pow2(width) == IF width = 0 THEN 1 ELSE 2 * Pow2(width - 1)

RandIntOffByOne(lo, hi) == lo..(hi + 1)

(* random.randint(lo, hi): any integer of lo..hi, both ends included *)
RandInt(lo, hi) == lo..hi

(* [BitVector(random.randint(0, N - 1), width) for _ in range(num_tests)]: *)
(* every list the generator can produce                                    *)
RandomLists(width, n) ==
    LET N == Pow2(width)
    IN  {[i \in 1..n |-> VBitVector(draw[i], width)] : draw \in [1..n -> RandInt(0, N - 1)]}

(* f"pytest.mark.parametrize('{key}', {arg})" *)
MarkerText(key, arg) ==
    <<TkName("pytest"), TkOp("."), TkName("mark"), TkOp("."), TkName("parametrize"),
      TkOp("("), TkString(key), TkOp(",")>> \o arg \o <<TkOp(")")>>

Unbound == [bound |-> FALSE, text |-> <<>>]
Bound(text) == [bound |-> TRUE, text |-> text]

(* The loop's state: the markers appended so far, the local sim_object,    *)
(* the namespace and the heap, the adapters registered, and the exception  *)
(* that ended it, if any.                                                  *)
LoopStart(globals, heap) ==
    [exc |-> "", decorator_list |-> <<>>, sim_object |-> Unbound,
     globals |-> globals, heap |-> heap, registered |-> <<>>]

(* tree.body[0].decorator_list.append(ast.parse(...).body[0].value) *)
Appended(st, stmt) ==
    IF IsRaise(stmt) THEN [st EXCEPT !.exc = stmt.exc]
    ELSE [st EXCEPT !.decorator_list = Append(@, stmt.value)]

AppendMarker(st, key, arg) == Appended(st, ast_parse(MarkerText(key, arg)))

(* The else branch: every descriptor that is no Random is taken for a      *)
(* circuit. The backend's constructor is outside the package: on a value   *)
(* that is no circuit it may raise (accepts = FALSE) or not.               *)
BindSimulator(st, key, value, accepts) ==
    IF value.k # "Circuit" /\ ~accepts THEN [st EXCEPT !.exc = "BackendError"]
    ELSE AppendMarker([st EXCEPT !.heap = Append(@, NewSim(value)),
                                 !.globals = SetItem(@, Spell(PyStr(value)),
                                                     VSim(Len(st.heap) + 1)),
                                 !.sim_object = Bound(PyStr(value)),
                                 !.registered = Append(@, Len(st.heap) + 1)],
                      key, <<TkOp("[")>> \o PyStr(value) \o <<TkOp("]")>>)

(* One iteration: the states it can end in. *)
LoopBody(st, key, value, n) ==
    IF value.k = "Random"
    THEN {AppendMarker(st, key, PyStrList(vs)) : vs \in RandomLists(value.width, n)}
    ELSE {BindSimulator(st, key, value, accepts) : accepts \in BOOLEAN}

RECURSIVE Loop(_, _, _)
(* for key, value in type_table.items(): every state the loop can end in *)
Loop(st, items, n) ==
    IF items = <<>> \/ st.exc # "" THEN {st}
    ELSE UNION {Loop(nxt, Tail(items), n) : nxt \in LoopBody(st, items[1].key, items[1].value, n)}

(* What one call of test_wrapper leaves behind. *)
Outcome(fn, exc, type_table, st, rewritten, body, globals) ==
    [fn |-> fn, exc |-> exc, type_table |-> type_table,
     decorator_list |-> st.decorator_list, sim_object |-> st.sim_object,
     registered |-> st.registered, rewritten |-> rewritten, body |-> body,
     globals |-> globals, heap |-> st.heap]

(* defn_globals["pytest"] = pytest, ["BitVector"] = BitVector, ["Scope"] = Scope *)
InjectHelpers(globals) ==
    SetItem(SetItem(SetItem(globals, "pytest", VModule("pytest")),
                    "BitVector", VClass("BitVector")),
            "Scope", VClass("Scope"))

(* The function object the definition evaluates to, marked and bound to   *)
(* its name; marks is the result of evaluating the decorators.             *)
Defined(fn, type_table, st, tree, globals, marks) ==
    IF IsRaise(marks.v)
    THEN Outcome(fn, marks.v.exc, type_table, st, TRUE, tree.body, globals)
    ELSE IF \E i \in 1..Len(marks.v.elts) : marks.v.elts[i].k # "MarkDecorator"
    THEN Outcome(fn, "TypeError", type_table, st, TRUE, tree.body, globals)
    ELSE Outcome(fn, "", type_table, st, TRUE, tree.body,
                 SetItem(globals, tree.name,
                         VFunction(tree.name,
                                   [i \in 1..Len(tree.params) |-> tree.params[i].arg],
                                   tree.body, marks.v.elts)))

(* exec(compile(tree), defn_globals, defn_locals) and eval(fn.__name__):   *)
(* the decorators are evaluated in the namespace, the function is defined  *)
(* on the rewritten body, marked, and bound to its name.                   *)
ExecDefinition(fn, type_table, st, tree, globals) ==
    Defined(fn, type_table, st, tree, globals,
            EvalAll(tree.decorator_list, <<>>, <<>>, globals, <<>>, st.heap))

(* The rewritten tree, recompiled with the helpers injected. *)
Recompiled(fn, type_table, st, tree) ==
    IF IsRaise(tree) THEN Outcome(fn, tree.exc, type_table, st, FALSE, <<>>, st.globals)
    ELSE ExecDefinition(fn, type_table, st, tree, InjectHelpers(st.globals))

(* After the loop: CoreIRSimulatorRewrite(sim_object).visit(tree), then    *)
(* the recompilation.                                                      *)
RewriteAndExec(fn, type_table, st) ==
    IF st.exc # "" THEN Outcome(fn, st.exc, type_table, st, FALSE, <<>>, st.globals)
    ELSE IF ~st.sim_object.bound
    THEN Outcome(fn, "UnboundLocalError", type_table, st, FALSE, <<>>, st.globals)
    ELSE Recompiled(fn, type_table, st,
                    visit_FunctionDef(st.sim_object.text,
                                      [fn EXCEPT !.decorator_list = st.decorator_list]))

KeepDecorators(decorator_list) == decorator_list

(* tree.body[0].decorator_list = [] *)
ClearDecorators(decorator_list) == <<>>

(* The loop and what follows it, ct the result of collect_types. *)
Synthesized(fn, ct, globals, heap, n) ==
    IF ct.exc # ""
    THEN {Outcome(fn, ct.exc, ct.type_table, LoopStart(globals, heap), FALSE, <<>>, globals)}
    ELSE {RewriteAndExec(fn, ct.type_table, st) :
            st \in Loop([LoopStart(globals, heap) EXCEPT
                            !.decorator_list = ClearDecorators(fn.decorator_list)],
                        ct.type_table, n)}

(* test_wrapper(fn): every outcome of one synthesis *)
test_wrapper(fn, globals, heap, n) ==
    Synthesized(fn, collect_types(fn, globals, heap), globals, heap, n)

----------------------------------------------------------------------------
(* The runner's invocation of a synthesized test: one value per marker. *)

RECURSIVE RunStmts(_, _, _, _, _)

(* after a statement's result r, the rest; an exception ends the run *)
RunRest(r, stmts, locals, globals, trace) ==
    IF IsRaise(r.v)
    THEN [trace |-> Append(trace, [calls |-> r.calls, exc |-> r.v.exc]), heap |-> r.heap]
    ELSE RunStmts(stmts, locals, globals, r.heap,
                  Append(trace, [calls |-> r.calls, exc |-> ""]))

RunStmts(stmts, locals, globals, heap, trace) ==
    IF stmts = <<>> THEN [trace |-> trace, heap |-> heap]
    ELSE RunRest(ExecStmt(stmts[1], locals, globals, <<>>, heap),
                 Tail(stmts), locals, globals, trace)

(* The combinations of the markers' values: one index per marker. *)
Combos(marks) ==
    LET lens == {0} \cup {Len(marks[j].argvalues) : j \in 1..Len(marks)}
        longest == CHOOSE m \in lens : \A x \in lens : x <= m
    IN  {c \in [1..Len(marks) -> 1..longest] :
            \A j \in 1..Len(marks) : c[j] <= Len(marks[j].argvalues)}

(* The parameters' values in an invocation. *)
BindArgs(f, c) ==
    [p \in {f.marks[j].argname : j \in 1..Len(f.marks)} |->
        LET j == CHOOSE j \in 1..Len(f.marks) : f.marks[j].argname = p
        IN  f.marks[j].argvalues[c[j]]]

NoRun == [fn |-> 0, args |-> <<>>, trace |-> <<>>]

----------------------------------------------------------------------------
(* The test modules the model is run on. *)

(* Statements of test bodies *)
SetPortFromParam == Assign(<<Attribute(Name("foo"), "a")>>, Name("a"))
SetPortConst == Assign(<<Attribute(Name("foo"), "a")>>, Num(1))
SetPortFromPort == Assign(<<Attribute(Name("foo"), "a")>>, Attribute(Name("foo"), "b"))
SetPortBar == Assign(<<Attribute(Name("bar"), "d")>>, Num(1))
CallEval == Expr(Call(Attribute(Name("foo"), "eval"), <<>>))
CallEvalBar == Expr(Call(Attribute(Name("bar"), "eval"), <<>>))
AssertPort == AssertStmt(Compare(Attribute(Name("foo"), "c"), Num(0)))
AssertEval == AssertStmt(Compare(Call(Attribute(Name("foo"), "eval"), <<>>),
                                 Attribute(Name("foo"), "c")))
AssertLocal == AssertStmt(Compare(Name("foo"), Name("foo")))
SetPortFromEval ==
    Assign(<<Attribute(Name("foo"), "a")>>, Call(Attribute(Name("foo"), "eval"), <<>>))
AssignLocal == Assign(<<Name("x")>>, Num(1))
AssignChain == Assign(<<Attribute(Name("foo"), "a"), Attribute(Name("foo"), "b")>>, Num(1))
AssignUnpack == Assign(<<Tuple(<<Attribute(Name("foo"), "a"), Attribute(Name("foo"), "b")>>)>>,
                       Name("a"))

AllStmts ==
    {SetPortFromParam, SetPortConst, SetPortFromPort, SetPortFromEval, SetPortBar, CallEval,
     CallEvalBar, AssertPort, AssertEval, AssertLocal, AssignLocal, AssignChain, AssignUnpack}

Bodies(stmts) == UNION {[1..n -> stmts] : n \in 1..MaxBody}

(* Annotations *)
RandomOf(w) == Call(Name("Random"), <<Num(w)>>)
Widths == 1..MaxWidth

(* Parameter lists *)
SynthParams ==
    {<<>>, <<Arg("foo", Name("Foo"))>>, <<Arg("foo", Name("MyFoo"))>>,
     <<Arg("foo", Name("Foo")), Arg("bar", Name("Bar"))>>,
     <<Arg("foo", Name("Foo")), Arg("bar", Name("MyFoo"))>>,
     <<Arg("foo", Name("int"))>>, <<Arg("foo", Str("hello"))>>,
     <<Arg("foo", NoAnnotation)>>, <<Arg("foo", Name("Baz"))>>,
     <<Arg("foo", Name("Foo")), Arg("x", Name("int"))>>,
     <<Arg("x", Name("int")), Arg("foo", Name("Foo"))>>}
    \cup {<<Arg("a", RandomOf(w))>> : w \in Widths}
    \cup {<<Arg("a", RandomOf(w)), Arg("foo", Name("Foo"))>> : w \in Widths}
    \cup {<<Arg("foo", Name("Foo")), Arg("a", RandomOf(w))>> : w \in Widths}
    \cup {<<Arg("a", RandomOf(w)), Arg("x", Name("int"))>> : w \in Widths}
    \cup {<<Arg("a", RandomOf(w)), Arg("foo", Name("Foo")), Arg("bar", Name("Bar"))>> :
             w \in Widths}

RewriteParams ==
    {<<Arg("foo", Name("Foo"))>>,
     <<Arg("a", RandomOf(1)), Arg("foo", Name("Foo"))>>,
     <<Arg("foo", Name("Foo")), Arg("bar", Name("Bar"))>>}

EnvParams ==
    {<<Arg("foo", Name("Foo"))>>, <<Arg("foo", Name("MyFoo"))>>, <<Arg("foo", Name("Bar"))>>}

(* Decorators a definition carries in its source: test_case itself, with   *)
(* or without an earlier parametrization above it.                         *)
TestCaseDecorator == Call(Attribute(Name("fault"), "test_case"), <<>>)
PriorMarker ==
    Call(Attribute(Attribute(Name("pytest"), "mark"), "parametrize"),
         <<Str("foo"), List(<<Num(1)>>)>>)
DecoratorLists == {<<TestCaseDecorator>>, <<PriorMarker, TestCaseDecorator>>}

SynthDefs ==
    {FunctionDef("test_1", p, b, d) :
        p \in SynthParams, b \in Bodies({SetPortFromParam, CallEval}), d \in DecoratorLists}

RewriteDefs ==
    {FunctionDef("test_1", p, b, <<TestCaseDecorator>>) :
        p \in RewriteParams, b \in Bodies(AllStmts)}

EnvDefs(name) ==
    {FunctionDef(name, p, <<b>>, <<TestCaseDecorator>>) :
        p \in EnvParams, b \in {SetPortConst, CallEval}}

(* Modules of one to MaxDefs definitions test_1, test_2, ... *)
EnvModules ==
    UNION {{m \in [1..n -> UNION {EnvDefs("test_" \o ToString(i)) : i \in 1..n}] :
                \A i \in 1..n : m[i].name = "test_" \o ToString(i)} : n \in 1..MaxDefs}

(* The defining module's namespace before any decoration: its circuits    *)
(* (MyFoo is a second name of the circuit Foo) and its imports.            *)
InitialGlobals ==
    [x \in {"Foo", "Bar", "MyFoo", "Random"} |->
        CASE x = "Foo" -> VCircuit("Foo")
          [] x = "MyFoo" -> VCircuit("Foo")
          [] x = "Bar" -> VCircuit("Bar")
          [] x = "Random" -> VClass("Random")]

NoProc == [pc |-> "idle"]

InitWith(modules) ==
    /\ src \in modules
    /\ num_tests \in 0..MaxNumTests
    /\ defn_globals = InitialGlobals
    /\ sims = <<>>
    /\ done = <<>>
    /\ run = NoRun
    /\ FaultConfig_env = <<>>
    /\ proc = NoProc

Init == InitWith({<<d>> : d \in SynthDefs})
InitRewrite == InitWith({<<d>> : d \in RewriteDefs})
InitEnv == InitWith(EnvModules)

(* The next definition of the module is decorated. An exception ends the   *)
(* module's import: nothing after it is decorated.                         *)
Decorate ==
    /\ src # <<>>
    /\ \A i \in 1..Len(done) : done[i].exc = ""
    /\ \E out \in test_wrapper(Head(src), defn_globals, sims, num_tests) :
        /\ defn_globals' = out.globals
        /\ sims' = out.heap
        /\ done' = Append(done, [fn |-> out.fn, exc |-> out.exc,
                                  type_table |-> out.type_table,
                                  decorator_list |-> out.decorator_list,
                                  sim_object |-> out.sim_object,
                                  registered |-> out.registered,
                                  rewritten |-> out.rewritten, body |-> out.body])
    /\ src' = Tail(src)
    /\ UNCHANGED <<num_tests, run, FaultConfig_env, proc>>

(* The invocation of done[i]'s function f on combination c ran as r. *)
Invoked(i, f, c, r) ==
    /\ run' = [fn |-> i,
               args |-> [j \in 1..Len(f.marks) |-> f.marks[j].argvalues[c[j]]],
               trace |-> r.trace]
    /\ sims' = r.heap

(* Once the module is imported, the runner invokes a synthesized test on   *)
(* one combination of its markers' values.                                 *)
RunTest ==
    /\ src = <<>>
    /\ \A i \in 1..Len(done) : done[i].exc = ""
    /\ \E i \in 1..Len(done) :
        \E c \in Combos(defn_globals[done[i].fn.name].marks) :
            Invoked(i, defn_globals[done[i].fn.name], c,
                    RunStmts(defn_globals[done[i].fn.name].body,
                             BindArgs(defn_globals[done[i].fn.name], c),
                             defn_globals, sims, <<>>))
    /\ UNCHANGED <<src, num_tests, defn_globals, done, FaultConfig_env, proc>>

----------------------------------------------------------------------------
(* subprocess_run.py. A string is a sequence of pieces (characters, or     *)
(* whole words where only their place matters); an output stream is the    *)
(* sequence of its lines.                                                  *)

MAGENTA == "ESC[35m"
CYAN == "ESC[36m"
RED == "ESC[31m"
BRIGHT == "ESC[1m"
RESET_ALL == "ESC[0m"

Whitespace == {" ", "\n", "\t"}

RECURSIVE rstrip(_)
(* str.rstrip() *)
rstrip(line) ==
    IF line # <<>> /\ line[Len(line)] \in Whitespace
    THEN rstrip(SubSeq(line, 1, Len(line) - 1))
    ELSE line

RECURSIVE Concat(_)
(* the lines of a stream, added up in order *)
Concat(lines) == IF lines = <<>> THEN <<>> ELSE lines[1] \o Concat(Tail(lines))

(* sub in text *)
Contains(sub, text) ==
    \E i \in 0..(Len(text) - Len(sub)) : SubSeq(text, i + 1, i + Len(sub)) = sub

(* class PrintDisplay, with the console it prints to: [mode, lines, console, exc] *)
PrintDisplay(mode) == [mode |-> mode, lines |-> <<>>, console |-> <<>>, exc |-> ""]

(* PrintDisplay.print(line) *)
display_print(d, line) ==
    IF d.exc # "" THEN d
    ELSE IF d.mode = "realtime" THEN [d EXCEPT !.console = Append(@, rstrip(line))]
    ELSE IF d.mode = "on_error" THEN [d EXCEPT !.lines = Append(@, rstrip(line))]
    ELSE [d EXCEPT !.exc = "Exception"]

(* PrintDisplay.error_printing() *)
error_printing(d) ==
    IF d.mode = "on_error" THEN [d EXCEPT !.console = @ \o d.lines] ELSE d

RECURSIVE PrintLines(_, _)
PrintLines(d, lines) ==
    IF lines = <<>> THEN d ELSE PrintLines(display_print(d, lines[1]), Tail(lines))

(* PrintDisplay.process_output(fd, name): the display after the stream's   *)
(* lines; the value returned is Concat(fd).                                *)
process_output(d, fd, name) ==
    IF fd = <<>> THEN d
    ELSE display_print(
            PrintLines(display_print(d, <<MAGENTA, BRIGHT, "<" \o name \o ">", RESET_ALL>>), fd),
            <<MAGENTA, BRIGHT, "</" \o name \o ">", RESET_ALL>>)

(* shlex.quote(arg): an argument with a space in it is quoted *)
NeedsQuotes == {"a b"}
quote(arg) == IF arg \in NeedsQuotes THEN "'" \o arg \o "'" ELSE arg

RECURSIVE make_cmd_str(_)
(* ' '.join(shlex.quote(arg) for arg in args) *)
make_cmd_str(args) ==
    IF args = <<>> THEN ""
    ELSE IF Len(args) = 1 THEN quote(args[1])
    ELSE quote(args[1]) \o " " \o make_cmd_str(Tail(args))

(* An optional argument: None, or a value *)
None == [some |-> FALSE, it |-> <<>>]
Some(x) == [some |-> TRUE, it |-> x]

(* dict.update *)
Update(d, more) == [x \in DOMAIN d \cup DOMAIN more |-> IF x \in DOMAIN more THEN more[x] ELSE d[x]]

OsEnviron == [x \in {"PATH"} |-> "/bin"]

(* resolve_env: [env, cfg], the environment returned and FaultConfig.env after *)
resolve_env(env, use_fault_cfg, add_to_env, cfg) ==
    IF env.some THEN [env |-> env.it, cfg |-> cfg]
    ELSE IF use_fault_cfg
    THEN IF add_to_env.some
         THEN [env |-> Update(cfg, add_to_env.it), cfg |-> Update(cfg, add_to_env.it)]
         ELSE [env |-> cfg, cfg |-> cfg]
    ELSE IF add_to_env.some
         THEN [env |-> Update(OsEnviron, add_to_env.it), cfg |-> cfg]
         ELSE [env |-> OsEnviron, cfg |-> cfg]

(* The errors found after the subprocess ended *)
ErrMsgNoRetCodeCheck(chk_ret_code, returncode, err_str, stdout, stderr) ==
    (IF err_str.some /\ Contains(err_str.it, stdout)
     THEN <<<<"Found ", "err_str", " in STDOUT.">>>> ELSE <<>>)
    \o (IF err_str.some /\ Contains(err_str.it, stderr)
        THEN <<<<"Found ", "err_str", " in STDERR.">>>> ELSE <<>>)

ErrMsg(chk_ret_code, returncode, err_str, stdout, stderr) ==
    (IF chk_ret_code /\ returncode # 0
     THEN <<<<"Got return code ", ToString(returncode), ".">>>> ELSE <<>>)
    \o (IF err_str.some /\ Contains(err_str.it, stdout)
        THEN <<<<"Found ", "err_str", " in STDOUT.">>>> ELSE <<>>)
    \o (IF err_str.some /\ Contains(err_str.it, stderr)
        THEN <<<<"Found ", "err_str", " in STDERR.">>>> ELSE <<>>)

(* The call's inputs, what the subprocess did if it was started, and how  *)
(* the call ended                                                          *)
Called(in, out, started, exc, d, result) ==
    [pc |-> IF exc = "" THEN "returned" ELSE "raised", in |-> in, out |-> out,
     started |-> started, exc |-> exc, lines |-> d.lines, console |-> d.console,
     result |-> result]

CompletedProcess(args, returncode, stdout, stderr) ==
    [args |-> args, returncode |-> returncode, stdout |-> stdout, stderr |-> stderr]
NoResult == CompletedProcess("", 0, <<>>, <<>>)

(* if len(err_msg) != 0: print the buffered lines and the errors, raise;   *)
(* else return the CompletedProcess                                        *)
Conclude(in, out, d, err_msg) ==
    IF err_msg # <<>>
    THEN Called(in, out, TRUE, "AssertionError",
                [error_printing(d) EXCEPT
                    !.console = @ \o <<<<RED, BRIGHT, "Found ", ToString(Len(err_msg)),
                                         " error(s):", RESET_ALL>>>>
                                  \o [k \in 1..Len(err_msg) |->
                                         <<RED, BRIGHT, ToString(k), ") ">> \o err_msg[k]
                                         \o <<RESET_ALL>>]],
                NoResult)
    ELSE Called(in, out, TRUE, "", d,
                CompletedProcess(IF in.shell THEN make_cmd_str(in.args)
                                 ELSE Spell([i \in 1..Len(in.args) |-> TkName(in.args[i])]),
                                 out.returncode, Concat(out.stdout), Concat(out.stderr)))

(* with Popen(...) as p: both streams are read to their end, STDOUT first  *)
Communicate(in, out, d) ==
    Conclude(in, out,
             process_output(process_output(d, out.stdout, "STDOUT"), out.stderr, "STDERR"),
             ErrMsg(in.chk_ret_code, out.returncode, in.err_str,
                    Concat(out.stdout), Concat(out.stderr)))

NoOutput == [stdout |-> <<>>, stderr |-> <<>>, returncode |-> 0]

(* display.print(... 'Running command: ' ... cmd_str), then the subprocess; *)
(* an exception of the first print leaves the subprocess unstarted          *)
Started(in, out, d) ==
    IF d.exc # "" THEN Called(in, NoOutput, FALSE, d.exc, d, NoResult)
    ELSE Communicate(in, out, d)

(* subprocess_run(args, ...) with script=None and cwd given *)
subprocess_run(in, out) ==
    Started(in, out,
            display_print(PrintDisplay(in.disp_type),
                          <<CYAN, BRIGHT, "Running command: ", RESET_ALL,
                            make_cmd_str(in.args)>>))

(* Inputs and subprocess behaviours the model is run on *)
OutputLines == {<<"E", "\n">>, <<"x", " ", "\n">>}
Streams == UNION {[1..n -> OutputLines] : n \in 0..MaxLines}
ErrStrs == {None, Some(<<"E">>), Some(<<"\n", "x">>), Some(<<>>)}
ReturnCodes == {0, 1}
Environments ==
    {[env |-> Some(OsEnviron), use_fault_cfg |-> TRUE, add_to_env |-> None],
     [env |-> None, use_fault_cfg |-> TRUE, add_to_env |-> Some([x \in {"SIM"} |-> "1"])],
     [env |-> None, use_fault_cfg |-> FALSE, add_to_env |-> None]}
Inputs ==
    {[args |-> <<"sim", "a b">>, disp_type |-> d, err_str |-> e, chk_ret_code |-> c,
      shell |-> s, env |-> v.env, use_fault_cfg |-> v.use_fault_cfg,
      add_to_env |-> v.add_to_env] :
        d \in {"on_error", "realtime", "never"}, e \in ErrStrs, c \in BOOLEAN,
        s \in BOOLEAN, v \in Environments}
Outputs == [stdout : Streams, stderr : Streams, returncode : ReturnCodes]

(* One call of subprocess_run *)
SubprocessRun ==
    /\ proc.pc = "idle"
    /\ \E in \in Inputs, out \in Outputs :
        /\ proc' = subprocess_run(in, out)
        /\ FaultConfig_env' =
              resolve_env(in.env, in.use_fault_cfg, in.add_to_env, FaultConfig_env).cfg
    /\ UNCHANGED <<src, num_tests, defn_globals, sims, done, run>>

InitSub ==
    /\ src = <<>>
    /\ num_tests = 0
    /\ defn_globals = InitialGlobals
    /\ sims = <<>>
    /\ done = <<>>
    /\ run = NoRun
    /\ FaultConfig_env = <<>>
    /\ proc = NoProc

NextSub == SubprocessRun

Next == Decorate \/ RunTest

Spec == Init /\ [][Next]_vars
SpecRewrite == InitRewrite /\ [][Next]_vars
SpecEnv == InitEnv /\ [][Next]_vars
SpecSub == InitSub /\ [][NextSub]_vars

----------------------------------------------------------------------------
(* Properties. i ranges over the syntheses done, j over parameters,        *)
(* markers or statements.                                                  *)

Syntheses == 1..Len(done)

(* The loop over the type table ran to its end with an adapter bound. *)
LoopDone(d) ==
    /\ Len(d.type_table) = Len(d.fn.params)
    /\ Len(d.decorator_list) = Len(d.fn.params)
    /\ d.sim_object.bound

ParametrizeOf(key, values) ==
    Call(Attribute(Attribute(Name("pytest"), "mark"), "parametrize"), <<Str(key), List(values)>>)

IsParametrize(m, key) ==
    /\ m.k = "Call"
    /\ Len(m.args) = 2
    /\ m.args[2].k = "List"
    /\ m = ParametrizeOf(key, m.args[2].elts)

(* C1: in every synthesis, the marker of a Random(width) parameter lists   *)
(* exactly num_tests values, each BitVector(v, width) with 0 <= v <        *)
(* 2^width, and the marker of a circuit parameter lists exactly one value; *)
(* the same holds of the values the compiled function is marked with.      *)
C1_SampleCountAndRange ==
    \A i \in Syntheses :
        \A j \in 1..Len(done[i].decorator_list) :
            /\ done[i].type_table[j].value.k = "Random" =>
                /\ Len(done[i].decorator_list[j].args[2].elts) = num_tests
                /\ \A e \in 1..num_tests :
                      \E v \in 0..(Pow2(done[i].type_table[j].value.width) - 1) :
                          done[i].decorator_list[j].args[2].elts[e]
                            = Call(Name("BitVector"),
                                   <<Num(v), Num(done[i].type_table[j].value.width)>>)
                /\ done[i].exc = "" =>
                      /\ Len(defn_globals[done[i].fn.name].marks[j].argvalues) = num_tests
                      /\ \A e \in 1..num_tests :
                            \E v \in 0..(Pow2(done[i].type_table[j].value.width) - 1) :
                                defn_globals[done[i].fn.name].marks[j].argvalues[e]
                                  = VBitVector(v, done[i].type_table[j].value.width)
            /\ done[i].type_table[j].value.k = "Circuit" =>
                /\ Len(done[i].decorator_list[j].args[2].elts) = 1
                /\ done[i].exc = "" =>
                      Len(defn_globals[done[i].fn.name].marks[j].argvalues) = 1

(* A synthesis with a Random parameter of the largest width and a circuit  *)
(* parameter succeeded with the most tests, the last value drawn being the *)
(* largest of its width.                                                   *)
C1_Witness ==
    \E i \in Syntheses :
        /\ done[i].exc = ""
        /\ num_tests = MaxNumTests
        /\ \E j \in 1..Len(done[i].type_table) : done[i].type_table[j].value.k = "Circuit"
        /\ \E j \in 1..Len(done[i].type_table) :
              /\ done[i].type_table[j].value = VRandom(MaxWidth)
              /\ defn_globals[done[i].fn.name].marks[j].argvalues[num_tests]
                   = VBitVector(Pow2(MaxWidth) - 1, MaxWidth)

SinglePortAssign(stmt) ==
    /\ stmt.k = "Assign"
    /\ Len(stmt.targets) = 1
    /\ stmt.targets[1].k = "Attribute"

(* C2: a statement obj.port = E is rewritten to one set_value call of the  *)
(* adapter with the port's name and rewrite(E), E with every attribute     *)
(* read inside it rewritten.                                               *)
C2_AssignedValueRewritten ==
    \A i \in Syntheses :
        done[i].rewritten =>
            \A j \in 1..Len(done[i].fn.body) :
                SinglePortAssign(done[i].fn.body[j]) =>
                    /\ done[i].body[j].k = "Expr"
                    /\ done[i].body[j].value.k = "Call"
                    /\ done[i].body[j].value.func.k = "Attribute"
                    /\ done[i].body[j].value.func.attr = "set_value"
                    /\ done[i].body[j].value.args
                         = <<Str(done[i].fn.body[j].targets[1].attr),
                             visit(done[i].sim_object.text, done[i].fn.body[j].value),
                             Call(Name("Scope"), <<>>)>>

IsEvalCall(e) ==
    /\ e.k = "Call"
    /\ e.func.k = "Attribute"
    /\ e.func.attr = "eval"
    /\ e.func.value.k = "Name"

(* The names whose eval field a statement invokes. *)
EvalTargets(stmt) ==
    CASE stmt.k = "Expr" ->
            IF IsEvalCall(stmt.value) THEN {stmt.value.func.value.id} ELSE {}
      [] stmt.k = "Assign" ->
            IF IsEvalCall(stmt.value) THEN {stmt.value.func.value.id} ELSE {}
      [] stmt.k = "Assert" /\ stmt.test.k = "Compare" ->
            (IF IsEvalCall(stmt.test.left) THEN {stmt.test.left.func.value.id} ELSE {})
            \cup (IF IsEvalCall(stmt.test.right) THEN {stmt.test.right.func.value.id} ELSE {})
      [] OTHER -> {}

(* The parameters of a synthesis that are bound to a circuit's adapter. *)
SimParams(d) ==
    {j \in 1..Len(d.type_table) : d.type_table[j].value.k = "Circuit"}

(* C3: a statement of the body that invokes the eval field of a            *)
(* simulator-bound parameter makes, when it is executed, exactly one       *)
(* evaluate call, on that parameter's adapter, and no get_value or         *)
(* set_value call for a port named "eval".                                 *)
C3_EvalIsOneEvaluate ==
    run.fn # 0 =>
        \A j \in 1..Len(run.trace) :
            \A p \in SimParams(done[run.fn]) :
                done[run.fn].type_table[p].key \in EvalTargets(done[run.fn].fn.body[j]) =>
                    /\ Cardinality({c \in 1..Len(run.trace[j].calls) :
                                      run.trace[j].calls[c].op = "evaluate"}) = 1
                    /\ \A c \in 1..Len(run.trace[j].calls) :
                          /\ run.trace[j].calls[c].port # "eval"
                          /\ run.trace[j].calls[c].op = "evaluate" =>
                                VSim(run.trace[j].calls[c].ref) = run.args[p]

RECURSIVE HasAttribute(_)
(* An attribute access occurs in the node. *)
HasAttribute(node) ==
    CASE node.k = "Attribute" -> TRUE
      [] node.k = "Assign" ->
            \/ \E t \in 1..Len(node.targets) : HasAttribute(node.targets[t])
            \/ HasAttribute(node.value)
      [] node.k = "Expr" -> HasAttribute(node.value)
      [] node.k = "Assert" -> HasAttribute(node.test)
      [] node.k = "Call" ->
            \/ HasAttribute(node.func)
            \/ \E a \in 1..Len(node.args) : HasAttribute(node.args[a])
      [] node.k = "Compare" -> HasAttribute(node.left) \/ HasAttribute(node.right)
      [] node.k \in {"List", "Tuple"} -> \E e \in 1..Len(node.elts) : HasAttribute(node.elts[e])
      [] OTHER -> FALSE

(* C4: a body whose statements neither assign to an attribute nor access   *)
(* one is rewritten to completion and comes out unchanged.                 *)
C4_OtherFormsPassThrough ==
    \A i \in Syntheses :
        (LoopDone(done[i]) /\ \A j \in 1..Len(done[i].fn.body) :
                                  ~HasAttribute(done[i].fn.body[j]))
            => (done[i].rewritten /\ done[i].body = done[i].fn.body)

UnsupportedAssign(stmt) ==
    /\ stmt.k = "Assign"
    /\ (Len(stmt.targets) > 1 \/ stmt.targets[1].k = "Tuple")

(* C5: a body with an assignment of several targets or of a tuple target   *)
(* makes the rewrite fail: no rewritten body is produced from it.          *)
C5_UnsupportedAssignFails ==
    \A i \in Syntheses :
        (LoopDone(done[i]) /\ \E j \in 1..Len(done[i].fn.body) :
                                  UnsupportedAssign(done[i].fn.body[j]))
            => (done[i].exc # "" /\ ~done[i].rewritten)

(* The names bound to an adapter in the defining namespace. *)
AdapterBindings == {x \in DOMAIN defn_globals : defn_globals[x].k = "FaultSimulator"}

(* C6: a synthesis that failed on a parameter whose type is neither a      *)
(* Random nor a circuit has registered no adapter in the namespace. It is  *)
(* stated for the syntheses the backend's constructor ended, the only      *)
(* rejection of such a type there is, whatever the exception's class.      *)
C6_UnsupportedTypeLeavesNothing ==
    \A i \in Syntheses :
        (/\ done[i].exc = "BackendError"
         /\ \E j \in 1..Len(done[i].type_table) :
              done[i].type_table[j].value.k \notin {"Random", "Circuit"})
            => (done[i].registered = <<>> /\ AdapterBindings = {})

ErrorCondition(p) ==
    \/ p.in.chk_ret_code /\ p.out.returncode # 0
    \/ /\ p.in.err_str.some
       /\ \/ Contains(p.in.err_str.it, Concat(p.out.stdout))
          \/ Contains(p.in.err_str.it, Concat(p.out.stderr))

ResultCarriesOutput(p) ==
    /\ p.result.returncode = p.out.returncode
    /\ p.result.stdout = Concat(p.out.stdout)
    /\ p.result.stderr = Concat(p.out.stderr)

IsPrefix(s, t) == Len(s) <= Len(t) /\ SubSeq(t, 1, Len(s)) = s

C9_ZeroOrOneBinding ==
    \A i \in Syntheses :
        /\ (/\ Len(done[i].type_table) = Len(done[i].fn.params)
            /\ \A j \in 1..Len(done[i].type_table) : done[i].type_table[j].value.k = "Random")
              => (done[i].exc = "" /\ done[i].registered = <<>>)
        /\ (/\ Len(done) = 1
            /\ done[i].exc = ""
            /\ SimParams(done[i]) # {}
            /\ \A j \in 1..Len(done[i].type_table) :
                  done[i].type_table[j].value.k \in {"Random", "Circuit"})
              => Cardinality(AdapterBindings) = 1

(* C10: when a synthesized test runs, every get_value and set_value call   *)
(* of its body reaches an adapter registered by that test's own synthesis. *)
C10_CallsReachOwnAdapter ==
    run.fn # 0 =>
        \A j \in 1..Len(run.trace) :
            \A c \in 1..Len(run.trace[j].calls) :
                run.trace[j].calls[c].op \in {"get_value", "set_value"} =>
                    \E r \in 1..Len(done[run.fn].registered) :
                        done[run.fn].registered[r] = run.trace[j].calls[c].ref

====
